---- MODULE Spec2Model ----
(***************************************************************************)
(* Model of the swatch FUSE adapter (src/main.rs): the SwatchFS request    *)
(* handlers lookup, getattr, read and readdir, the attribute translator    *)
(* meta_into_file_attr, and the backing directory the adapter holds open.  *)
(***************************************************************************)
EXTENDS Integers, Sequences, FiniteSets, TLC

(***************************************************************************)
(* Program and libc constants.                                             *)
(***************************************************************************)
ENOENT == 2
TTL == 1

S_IFMT == 61440
S_IFREG == 32768
S_IFDIR == 16384
S_IFLNK == 40960
S_IFBLK == 24576
S_IFCHR == 8192
S_IFIFO == 4096
S_IFSOCK == 49152

(***************************************************************************)
(* Bounds of the model.                                                    *)
(***************************************************************************)
\* largest number of directory entries one reply buffer holds
MaxCap == 3
\* largest resume offset a read-directory request carries
MaxOffset == 4
\* most entries one resumed listing collects before it is abandoned
MaxListed == 4
\* scaled stand-in for the largest second chrono's DateTime represents
MaxTimestamp == 20

\* names a request may carry and the backing directory may hold
Names == {"hello.txt", "other.txt"}
\* identities a request may carry: the root, the hard-coded 2, backing inodes
Identities == {1, 2, 5}
\* inode numbers the backing filesystem reports
RootInos == {2, 7}
ChildInos == {1, 5}
\* timestamps the backing filesystem reports: one representable, one not
Timestamps == {13, MaxTimestamp + 1}
\* file modes of backing children: a regular file, a directory, and a type
\* pattern (0160000) that is none of the seven the translator knows
ChildModes == {S_IFREG + 420, S_IFDIR + 493, 57344}
FileSizes == {0, 13}
\* metadata query outcomes besides the tree's own answer
Faults == {"none", "EACCES", "EIO"}
ReadOffsets == {7, 13}
ReadSizes == {5, 100}

VARIABLES
    root,       \* stat of the directory behind SwatchFS.root
    dir,        \* the backing directory: name -> stat of the child, or NoEntry
    alive,      \* FALSE once a handler has panicked
    req,        \* the request dispatched last on the present backing tree
    replies,    \* the replies the handler issued for req, in order
    issued,     \* history: <<backing inode, identity>> of the successful
                \* lookups since the backing tree last changed
    firstIdent, \* history: <<parent, name>> -> identity of its first
                \* successful lookup of this mount (0: none yet)
    listed,     \* the entries a resumed listing has collected so far
    cursor,     \* the offset the resumed listing continues at
    listDone,   \* TRUE once a call of the listing delivered no entry
    calls,      \* the number of calls the resumed listing has made
    probe       \* history: a request answered on the present backing tree
                \* and the replies it got, kept for comparison, with the
                \* lookups that had succeeded by then

vars ==
    <<root, dir, alive, req, replies, issued, firstIdent, listed, cursor,
      listDone, calls, probe>>
history == <<issued, firstIdent, probe>>
listing == <<listed, cursor, listDone, calls>>

(***************************************************************************)
(* Backing filesystem.                                                     *)
(***************************************************************************)
\* struct stat as openat::Metadata::stat() returns it
MkStat(ino, mode, size, t) ==
    [present |-> TRUE, st_ino |-> ino, st_mode |-> mode, st_size |-> size,
     st_atime |-> t, st_mtime |-> t, st_ctime |-> t, st_birthtime |-> t,
     st_nlink |-> 1, st_uid |-> 501, st_gid |-> 20]

\* a name the backing directory does not hold
NoEntry == [present |-> FALSE]

\* the children of the backing directory
Children(d) == {n \in Names : d[n].present}

\* self.root.metadata(name): Ok(stat), Err(NotFound) or another Err
Metadata(d, name, fault) ==
    IF fault # "none" THEN [ok |-> FALSE, kind |-> fault]
    ELSE IF ~d[name].present THEN [ok |-> FALSE, kind |-> "NotFound"]
    ELSE [ok |-> TRUE, stat |-> d[name]]

\* self.root.self_metadata(): Ok(stat) or Err
SelfMetadata(r, fault) ==
    IF fault # "none" THEN [ok |-> FALSE, kind |-> fault]
    ELSE [ok |-> TRUE, stat |-> r]

(***************************************************************************)
(* Attribute translator.                                                   *)
(***************************************************************************)
\* DateTime::from_timestamp(secs, 0): None outside the representable range
from_timestamp(secs) ==
    IF secs >= -MaxTimestamp /\ secs <= MaxTimestamp
    THEN [some |-> TRUE, secs |-> secs, nanos |-> 0]
    ELSE [some |-> FALSE]

\* s.st_mode & libc::S_IFMT: the mask is bits 12..15 of the mode
TypeBits(mode) == (mode % (S_IFMT + 4096)) - (mode % 4096)

\* s.st_mode & !libc::S_IFMT
PermBits(mode) == mode - TypeBits(mode)

\* a slip: the wildcard arm coerces to a regular file
FileKind_Coerce(typ) ==
    CASE typ = S_IFREG -> "RegularFile"
      [] typ = S_IFDIR -> "Directory"
      [] typ = S_IFLNK -> "Symlink"
      [] typ = S_IFBLK -> "BlockDevice"
      [] typ = S_IFCHR -> "CharDevice"
      [] typ = S_IFIFO -> "NamedPipe"
      [] typ = S_IFSOCK -> "Socket"
      [] OTHER -> "RegularFile"

\* the match on the type bits; "panic" stands for the wildcard arm
FileKind(typ) ==
    CASE typ = S_IFREG -> "RegularFile"
      [] typ = S_IFDIR -> "Directory"
      [] typ = S_IFLNK -> "Symlink"
      [] typ = S_IFBLK -> "BlockDevice"
      [] typ = S_IFCHR -> "CharDevice"
      [] typ = S_IFIFO -> "NamedPipe"
      [] typ = S_IFSOCK -> "Socket"
      [] OTHER -> "panic"

\* [panic |-> TRUE], or [panic |-> FALSE, attr |-> the FileAttr]
meta_into_file_attr(s) ==
    LET typ == TypeBits(s.st_mode)
        atime == from_timestamp(s.st_atime)
        mtime == from_timestamp(s.st_mtime)
        ctime == from_timestamp(s.st_ctime)
        crtime == from_timestamp(s.st_birthtime)
    IN IF ~(atime.some /\ mtime.some /\ ctime.some /\ crtime.some)
       THEN [panic |-> TRUE]                                  \* unwrap()
       ELSE IF FileKind(typ) = "panic" THEN [panic |-> TRUE]
       ELSE [panic |-> FALSE,
             attr |-> [atime |-> atime, mtime |-> mtime, ctime |-> ctime,
                       crtime |-> crtime, ino |-> s.st_ino,
                       size |-> s.st_size, gid |-> s.st_gid,
                       uid |-> s.st_uid, nlink |-> s.st_nlink,
                       perm |-> PermBits(s.st_mode),
                       kind |-> FileKind(typ)]]

(***************************************************************************)
(* Replies a handler issues through its reply object.                      *)
(***************************************************************************)
ReplyError(errno) == [kind |-> "error", errno |-> errno]
ReplyEntry(ttl, attr, generation) ==
    [kind |-> "entry", ttl |-> ttl, attr |-> attr, generation |-> generation]
ReplyAttr(ttl, attr) == [kind |-> "attr", ttl |-> ttl, attr |-> attr]
ReplyOk(buf) == [kind |-> "dir", entries |-> buf]

\* what a handler run leaves behind: the replies it issued by calling its
\* reply object (a branch that calls nothing issues none), and whether it
\* unwound with a panic
Returned(rs) == [replies |-> rs, panic |-> FALSE]
Panicked == [replies |-> <<>>, panic |-> TRUE]

(***************************************************************************)
(* Request handlers (impl Filesystem for SwatchFS).                        *)
(***************************************************************************)
\* a slip: the test on the error kind inverted
lookup_KindInverted(parent, name, meta) ==
    IF ~meta.ok
    THEN IF meta.kind # "NotFound"
         THEN Returned(<<ReplyError(ENOENT)>>)
         ELSE Returned(<<>>)
    ELSE IF parent = 1 /\ name = "hello.txt"
    THEN LET a == meta_into_file_attr(meta.stat)
         IN IF a.panic THEN Panicked
            ELSE Returned(<<ReplyEntry(TTL, a.attr, 0)>>)
    ELSE Returned(<<ReplyError(ENOENT)>>)

\* a slip: the test on the name left out
lookup_AnyName(parent, name, meta) ==
    IF ~meta.ok
    THEN IF meta.kind = "NotFound"
         THEN Returned(<<ReplyError(ENOENT)>>)
         ELSE Returned(<<>>)
    ELSE IF parent = 1
    THEN LET a == meta_into_file_attr(meta.stat)
         IN IF a.panic THEN Panicked
            ELSE Returned(<<ReplyEntry(TTL, a.attr, 0)>>)
    ELSE Returned(<<ReplyError(ENOENT)>>)

\* a slip: a fresh identity allocated on every successful lookup
lookup_FreshIdent(parent, name, meta) ==
    IF ~meta.ok
    THEN IF meta.kind = "NotFound"
         THEN Returned(<<ReplyError(ENOENT)>>)
         ELSE Returned(<<>>)
    ELSE IF parent = 1 /\ name = "hello.txt"
    THEN LET a == meta_into_file_attr(meta.stat)
         IN IF a.panic THEN Panicked
            ELSE Returned(<<ReplyEntry(TTL,
                     [a.attr EXCEPT !.ino = 2 + Cardinality(issued)], 0)>>)
    ELSE Returned(<<ReplyError(ENOENT)>>)

\* a slip: a child already handed out is refused the second time
lookup_Once(parent, name, meta) ==
    IF ~meta.ok
    THEN IF meta.kind = "NotFound"
         THEN Returned(<<ReplyError(ENOENT)>>)
         ELSE Returned(<<>>)
    ELSE IF parent = 1 /\ name = "hello.txt" /\ issued = {}
    THEN LET a == meta_into_file_attr(meta.stat)
         IN IF a.panic THEN Panicked
            ELSE Returned(<<ReplyEntry(TTL, a.attr, 0)>>)
    ELSE Returned(<<ReplyError(ENOENT)>>)

lookup(parent, name, meta) ==
    IF ~meta.ok
    THEN IF meta.kind = "NotFound"
         THEN Returned(<<ReplyError(ENOENT)>>)
         ELSE Returned(<<>>)
    ELSE IF parent = 1 /\ name = "hello.txt"
    THEN LET a == meta_into_file_attr(meta.stat)
         IN IF a.panic THEN Panicked
            ELSE Returned(<<ReplyEntry(TTL, a.attr, 0)>>)
    ELSE Returned(<<ReplyError(ENOENT)>>)

getattr(ino, selfmeta) ==
    IF ino = 1
    THEN IF ~selfmeta.ok THEN Panicked                        \* unwrap()
         ELSE LET a == meta_into_file_attr(selfmeta.stat)
              IN IF a.panic THEN Panicked
                 ELSE Returned(<<ReplyAttr(TTL, a.attr)>>)
    ELSE Returned(<<ReplyError(ENOENT)>>)

\* a slip: every identity but the root's taken for the file
read_NotRoot(ino, offset, size) ==
    IF ino # 1 THEN Returned(<<>>)
    ELSE Returned(<<ReplyError(ENOENT)>>)

read(ino, offset, size) ==
    IF ino = 2 THEN Returned(<<>>)
    ELSE Returned(<<ReplyError(ENOENT)>>)

\* the hard-coded listing
Entries ==
    << [ino |-> 1, kind |-> "Directory", name |-> "."],
       [ino |-> 1, kind |-> "Directory", name |-> ".."],
       [ino |-> 2, kind |-> "RegularFile", name |-> "hello.txt"] >>

\* reply.add(ino, offset, kind, name) on a buffer holding cap entries:
\* full: the entry did not fit and was not added
ReplyAdd(buf, cap, ino, offset, kind, name) ==
    IF Len(buf) >= cap
    THEN [full |-> TRUE, buf |-> buf]
    ELSE [full |-> FALSE,
          buf |-> Append(buf, [ino |-> ino, offset |-> offset,
                               kind |-> kind, name |-> name])]

\* a slip: the entry's own index instead of the next entry's
NextOffset_OwnIndex(i) == i

\* the offset attached to the entry of index i
NextOffset(i) == i + 1

\* the loop over entries.into_iter().enumerate().skip(offset), from index i
RECURSIVE AddEntries(_, _, _)
AddEntries(i, buf, cap) ==
    IF i >= Len(Entries) THEN buf
    ELSE LET e == Entries[i + 1]
             r == ReplyAdd(buf, cap, e.ino, NextOffset(i), e.kind, e.name)
         IN IF r.full THEN r.buf
            ELSE AddEntries(i + 1, r.buf, cap)

\* a slip: the return after the error reply left out
readdir_NoReturn(ino, offset, cap) ==
    IF ino # 1
    THEN Returned(<<ReplyError(ENOENT),
                    ReplyOk(AddEntries(offset, <<>>, cap))>>)
    ELSE Returned(<<ReplyOk(AddEntries(offset, <<>>, cap))>>)

readdir(ino, offset, cap) ==
    IF ino # 1 THEN Returned(<<ReplyError(ENOENT)>>)
    ELSE Returned(<<ReplyOk(AddEntries(offset, <<>>, cap))>>)

(***************************************************************************)
(* State machine.                                                          *)
(***************************************************************************)
LookupKeys == {1, 2} \X Names

NoRequest ==
    [op |-> "none", ino |-> 0, name |-> "", offset |-> 0, size |-> 0,
     cap |-> 0, fault |-> "none"]

NoProbe ==
    [set |-> FALSE, req |-> NoRequest, replies |-> <<>>, issued |-> {}]

Init ==
    /\ \E ino \in RootInos, t \in Timestamps :
           root = MkStat(ino, S_IFDIR + 493, 0, t)
    /\ dir = [n \in Names |-> NoEntry]
    /\ alive = TRUE
    /\ req = NoRequest
    /\ replies = <<>>
    /\ issued = {}
    /\ firstIdent = [k \in LookupKeys |-> 0]
    /\ listed = <<>>
    /\ cursor = 0
    /\ listDone = FALSE
    /\ calls = 0
    /\ probe = NoProbe

\* the identity a reply of a successful lookup carries
EntryIdent(rs) == rs[1].attr.ino

Lookup(parent, name, fault) ==
    LET meta == Metadata(dir, name, fault)
        out == lookup(parent, name, meta)
        won == Len(out.replies) = 1 /\ out.replies[1].kind = "entry"
    IN /\ alive
       /\ req' = [NoRequest EXCEPT !.op = "lookup", !.ino = parent,
                                   !.name = name, !.fault = fault]
       /\ replies' = out.replies
       /\ alive' = ~out.panic
       /\ issued' =
              IF won
              THEN issued \cup {<<meta.stat.st_ino, EntryIdent(out.replies)>>}
              ELSE issued
       /\ firstIdent' =
              IF won /\ firstIdent[<<parent, name>>] = 0
              THEN [firstIdent EXCEPT
                        ![<<parent, name>>] = EntryIdent(out.replies)]
              ELSE firstIdent
       /\ UNCHANGED <<root, dir, listing, probe>>

Getattr(ino, fault) ==
    LET out == getattr(ino, SelfMetadata(root, fault))
    IN /\ alive
       /\ req' = [NoRequest EXCEPT !.op = "getattr", !.ino = ino,
                                   !.fault = fault]
       /\ replies' = out.replies
       /\ alive' = ~out.panic
       /\ UNCHANGED <<root, dir, history, listing>>

Read(ino, offset, size) ==
    LET out == read(ino, offset, size)
    IN /\ alive
       /\ req' = [NoRequest EXCEPT !.op = "read", !.ino = ino,
                                   !.offset = offset, !.size = size]
       /\ replies' = out.replies
       /\ alive' = ~out.panic
       /\ UNCHANGED <<root, dir, history, listing>>

Readdir(ino, offset, cap) ==
    LET out == readdir(ino, offset, cap)
    IN /\ alive
       /\ req' = [NoRequest EXCEPT !.op = "readdir", !.ino = ino,
                                   !.offset = offset, !.cap = cap]
       /\ replies' = out.replies
       /\ alive' = ~out.panic
       /\ UNCHANGED <<root, dir, history, listing>>

\* inode numbers the backing filesystem has in use
UsedInos == {root.st_ino} \cup {dir[n].st_ino : n \in Children(dir)}

\* another process creates name in the backing directory; what was
\* answered on the tree as it was is no longer an answer on this one
CreateEntry(name, ino, mode, size, t) ==
    /\ ~dir[name].present
    /\ ino \notin UsedInos
    /\ size \in (IF TypeBits(mode) = S_IFREG THEN FileSizes ELSE {0})
    /\ dir' = [dir EXCEPT ![name] = MkStat(ino, mode, size, t)]
    /\ issued' = {}
    /\ listed' = <<>>
    /\ cursor' = 0
    /\ listDone' = FALSE
    /\ calls' = 0
    /\ req' = NoRequest
    /\ replies' = <<>>
    /\ probe' = NoProbe
    /\ UNCHANGED <<root, alive, firstIdent>>

\* another process removes name from the backing directory
RemoveEntry(name) ==
    /\ dir[name].present
    /\ dir' = [dir EXCEPT ![name] = NoEntry]
    /\ issued' = {}
    /\ listed' = <<>>
    /\ cursor' = 0
    /\ listDone' = FALSE
    /\ calls' = 0
    /\ req' = NoRequest
    /\ replies' = <<>>
    /\ probe' = NoProbe
    /\ UNCHANGED <<root, alive, firstIdent>>

\* timestamps of backing children: representable ones
ChildTimestamps == {t \in Timestamps : t <= MaxTimestamp}

Next ==
    \/ \E parent \in {1, 2}, name \in Names, fault \in Faults :
           Lookup(parent, name, fault)
    \/ \E ino \in Identities, fault \in {"none", "EIO"} : Getattr(ino, fault)
    \/ \E ino \in Identities, offset \in ReadOffsets, size \in ReadSizes :
           Read(ino, offset, size)
    \/ \E ino \in {1, 2}, offset \in 0..MaxOffset, cap \in 1..MaxCap :
           Readdir(ino, offset, cap)
    \/ \E name \in Names, ino \in ChildInos, mode \in ChildModes,
          size \in FileSizes, t \in ChildTimestamps :
           CreateEntry(name, ino, mode, size, t)
    \/ \E name \in Names : RemoveEntry(name)

Spec == Init /\ [][Next]_vars

(***************************************************************************)
(* A resumed listing: read-directory calls on the root that start at       *)
(* offset 0 and continue at the offset attached to the last entry          *)
(* delivered, each with a reply buffer of its own capacity.                *)
(***************************************************************************)
ReaddirResume(cap) ==
    LET out == readdir(1, cursor, cap)
        es == out.replies[1].entries
    IN /\ alive
       /\ ~listDone
       /\ Len(listed) < MaxListed
       /\ req' = [NoRequest EXCEPT !.op = "readdir", !.ino = 1,
                                   !.offset = cursor, !.cap = cap]
       /\ replies' = out.replies
       /\ alive' = ~out.panic
       /\ listed' = listed \o es
       /\ cursor' = IF es = <<>> THEN cursor ELSE es[Len(es)].offset
       /\ listDone' = (es = <<>>)
       /\ calls' = calls + 1
       /\ UNCHANGED <<root, dir, history>>

\* the kernel starts a new listing (rewinddir)
ListRestart ==
    /\ alive
    /\ listed # <<>>
    /\ listed' = <<>>
    /\ cursor' = 0
    /\ listDone' = FALSE
    /\ calls' = 0
    /\ UNCHANGED <<root, dir, alive, req, replies, history>>

NextListing ==
    \/ \E cap \in 1..MaxCap : ReaddirResume(cap)
    \/ ListRestart
    \/ \E name \in Names, ino \in ChildInos, mode \in ChildModes,
          size \in FileSizes, t \in ChildTimestamps :
           CreateEntry(name, ino, mode, size, t)
    \/ \E name \in Names : RemoveEntry(name)

SpecListing == Init /\ [][NextListing]_vars

(***************************************************************************)
(* Replay: the kernel keeps one answered request and its replies, and the  *)
(* requests that follow on the same backing tree are compared with it.     *)
(* The handlers take &mut self, so no two of them run at the same time:    *)
(* requests the kernel has outstanding together are handled in some order, *)
(* each handler run a step of its own.                                     *)
(***************************************************************************)
Probe ==
    /\ alive
    /\ ~probe.set
    /\ req # NoRequest
    /\ probe' = [set |-> TRUE, req |-> req, replies |-> replies,
                 issued |-> issued]
    /\ req' = NoRequest
    /\ replies' = <<>>
    /\ UNCHANGED <<root, dir, alive, issued, firstIdent, listing>>

NextReplay ==
    \/ \E parent \in {1, 2}, name \in Names, fault \in {"none", "EIO"} :
           Lookup(parent, name, fault)
    \/ \E ino \in Identities, fault \in {"none", "EIO"} : Getattr(ino, fault)
    \/ \E ino \in Identities : Read(ino, 7, 100)
    \/ \E ino \in {1, 2}, cap \in 1..MaxCap : Readdir(ino, 0, cap)
    \/ \E ino \in ChildInos, mode \in {S_IFREG + 420, 57344} :
           CreateEntry("hello.txt", ino, mode, 13, 13)
    \/ RemoveEntry("hello.txt")
    \/ Probe

SpecReplay == Init /\ [][NextReplay]_vars

(***************************************************************************)
(* The attribute translator on every pattern of type bits: hello.txt is    *)
(* created with any of the sixteen patterns and looked up.                 *)
(***************************************************************************)
\* every pattern of the four type bits, with some permission bits
AllModes == {typ * 4096 + perm : typ \in 0..15, perm \in {0, 420, 2541}}

NextTranslate ==
    \/ \E name \in Names : Lookup(1, name, "none")
    \/ \E ino \in ChildInos, mode \in AllModes, size \in FileSizes,
          t \in ChildTimestamps :
           CreateEntry("hello.txt", ino, mode, size, t)
    \/ RemoveEntry("hello.txt")

SpecTranslate == Init /\ [][NextTranslate]_vars

(***************************************************************************)
(* Properties.                                                             *)
(***************************************************************************)
\* exactly one reply of the given kind was issued for the last request
Replied(k) == Len(replies) = 1 /\ replies[1].kind = k

\* the (identity, type, name) triples of delivered directory entries
Triples(es) == [j \in 1..Len(es) |-> <<es[j].ino, es[j].kind, es[j].name>>]

\* the identities successful lookups have returned on the unchanged tree
IssuedIdents == {p[2] : p \in issued}

\* a read-directory request on the root from offset 0 whose buffer takes n
\* entries or more
FullListingOf(n) ==
    req.op = "readdir" /\ req.ino = 1 /\ req.offset = 0 /\ req.cap >= n

\* C1: every dispatched request (lookup, get-attributes, read-directory,
\* read-file) has been answered by its handler with exactly one reply,
\* never zero and never two.
C1_ExactlyOneReply == req.op # "none" => Len(replies) = 1

\* C2: with a backing directory holding just the regular file hello.txt,
\* the listing of the root from offset 0 is (1,dir,"."), (1,dir,".."),
\* (N,file,"hello.txt") for the identity N a successful lookup of
\* hello.txt returned.
C2_ListingCarriesLookupIdentity ==
    ( /\ FullListingOf(3)
      /\ Children(dir) = {"hello.txt"}
      /\ FileKind(TypeBits(dir["hello.txt"].st_mode)) = "RegularFile" )
    => \A n \in IssuedIdents :
           /\ Replied("dir")
           /\ Triples(replies[1].entries) =
                  << <<1, "Directory", ".">>, <<1, "Directory", "..">>,
                     <<n, "RegularFile", "hello.txt">> >>

\* C3: get-attributes on an identity that a successful lookup returned,
\* the backing tree unchanged since, replies with an attribute record and
\* not with "no such entry".
C3_GetattrKnowsLookedUp ==
    (alive /\ req.op = "getattr" /\ req.fault = "none"
        /\ req.ino \in IssuedIdents)
    => Replied("attr")

\* the number of bytes of a file of the given size that the range
\* [offset, offset + length) covers
ClippedLen(size, offset, length) ==
    IF offset >= size THEN 0
    ELSE IF offset + length > size THEN size - offset
    ELSE length

\* C4: read-file on the identity of a known regular file replies with the
\* data of the requested range clipped to end-of-file: nothing at or past
\* end-of-file, size - offset bytes when the range runs past it.
C4_ReadClipsToEof ==
    \A p \in issued :
        ( /\ req.op = "read"
          /\ req.ino = p[2]
          /\ dir["hello.txt"].present
          /\ dir["hello.txt"].st_ino = p[1]
          /\ FileKind(TypeBits(dir["hello.txt"].st_mode)) = "RegularFile" )
        => /\ Replied("data")
           /\ replies[1].len =
                  ClippedLen(dir["hello.txt"].st_size, req.offset, req.size)

\* C5: an unbounded listing of the root from offset 0 is ".", "..", then
\* every child of the backing directory exactly once and nothing else.
C5_ListingIsTheChildren ==
    FullListingOf(2 + Cardinality(Children(dir)))
    => /\ Replied("dir")
       /\ LET es == replies[1].entries
          IN /\ Len(es) = 2 + Cardinality(Children(dir))
             /\ es[1].name = "."
             /\ es[2].name = ".."
             /\ {es[j].name : j \in 3..Len(es)} = Children(dir)

\* the listing one call with room for every entry delivers
UnboundedListing == AddEntries(0, <<>>, Len(Entries))

\* C6: a listing resumed at the offset of the last entry delivered, with
\* any buffer capacity of one entry or more per call, never repeats or
\* skips an entry; once a call delivers nothing (a success with an empty
\* list) the calls together have delivered the unbounded call's sequence.
C6_ResumedListingIsTheListing ==
    /\ Len(listed) <= Len(UnboundedListing)
    /\ \A j \in 1..Len(listed) :
           Triples(listed)[j] = Triples(UnboundedListing)[j]
    /\ listDone =>
           /\ Triples(listed) = Triples(UnboundedListing)
           /\ replies = <<ReplyOk(<<>>)>>

\* C6 witness: a listing delivered one entry per call and is complete
C6_Witness ==
    listDone /\ calls = Len(Entries) + 1 /\ Len(listed) = Len(Entries)

\* C7: get-attributes on the root identity 1 replies with an attribute
\* record; it never replies with an error and never ends the adapter,
\* whatever the backing filesystem answers for the root's metadata.
C7_RootGetattrSucceeds ==
    (req.op = "getattr" /\ req.ino = 1) => (alive /\ Replied("attr"))

\* C8: distinct backing objects the adapter has exposed carry different
\* identities; the root carries identity 1, so no child carries 1.
C8_IdentitiesUnique ==
    /\ \A p, q \in issued : p[1] # q[1] => p[2] # q[2]
    /\ \A p \in issued : p[1] # root.st_ino => p[2] # 1

\* C9: every successful lookup of a (parent, name) pair returns the
\* identity the first successful lookup of that pair returned in this
\* mount, also when the backing entry was replaced in between.
C9_LookupIdentityStable ==
    (req.op = "lookup" /\ Replied("entry"))
    => EntryIdent(replies) = firstIdent[<<req.ino, req.name>>]

\* C10: a lookup whose metadata query failed with an error other than
\* not-found is answered with an error code other than "no such entry".
C10_BackingFailurePropagated ==
    (req.op = "lookup" /\ req.fault \in {"EACCES", "EIO"})
    => (Replied("error") /\ replies[1].errno # ENOENT)

\* the reply that says "no such entry", and nothing else
NoSuchEntry == <<ReplyError(ENOENT)>>

\* C11: a lookup under the root of a name the backing directory does not
\* hold replies "no such entry", and so does get-attributes on an identity
\* the mount never assigned (any but the root's is answered so); neither
\* ends the adapter.
C11_NotFoundPropagates ==
    /\ ( /\ req.op = "lookup"
         /\ req.ino = 1
         /\ req.fault = "none"
         /\ ~dir[req.name].present )
       => (replies = NoSuchEntry /\ alive)
    /\ (req.op = "getattr" /\ req.ino # 1)
       => (replies = NoSuchEntry /\ alive)

\* C11 witness: a lookup of an absent name under the root was answered
\* "no such entry"
C11_Witness ==
    /\ req.op = "lookup"
    /\ req.ino = 1
    /\ req.fault = "none"
    /\ ~dir[req.name].present
    /\ replies = NoSuchEntry
    /\ alive

\* C12: a lookup under a parent other than the root is answered "no such
\* entry" for every name and every outcome of the metadata query; a
\* success entry is returned only under the root for a child that exists.
C12_NonRootParentNotFound ==
    /\ (req.op = "lookup" /\ req.ino # 1) => replies = NoSuchEntry
    /\ (req.op = "lookup" /\ Replied("entry"))
       => (req.ino = 1 /\ dir[req.name].present)

\* a successful lookup, as a request and its replies
LookupWon(r, rs) ==
    r.op = "lookup" /\ Len(rs) = 1 /\ rs[1].kind = "entry"

\* C13: two lookups of the same (parent, name) child that the kernel has
\* outstanding together, handled in either order and with any requests
\* between them, are answered with the same identity.
C13_ConcurrentLookupsAgree ==
    ( /\ probe.set
      /\ LookupWon(probe.req, probe.replies)
      /\ LookupWon(req, replies)
      /\ req.ino = probe.req.ino
      /\ req.name = probe.req.name )
    => EntryIdent(replies) = EntryIdent(probe.replies)

\* C13 witness: two lookups of hello.txt under the root both succeeded
C13_Witness ==
    /\ probe.set
    /\ LookupWon(probe.req, probe.replies)
    /\ LookupWon(req, replies)
    /\ req.ino = probe.req.ino
    /\ req.name = probe.req.name

\* C14: read-directory on an identity other than the root's replies "no
\* such entry" and delivers no entry, for every offset; read-directory on
\* the root never replies with an error.
C14_ReaddirOnlyRoot ==
    req.op = "readdir"
    => /\ req.ino # 1 => replies = NoSuchEntry
       /\ req.ino = 1 => Replied("dir")

\* C14 witness: a read-directory on identity 2 at a resume offset
C14_Witness ==
    req.op = "readdir" /\ req.ino = 2 /\ req.offset = 1
        /\ replies = NoSuchEntry

\* the identities the adapter has given to regular files: those its
\* listing carries, and those lookups returned on the present tree
KnownRegular ==
    {Entries[j].ino : j \in {k \in 1..Len(Entries) :
                                 Entries[k].kind = "RegularFile"}}
    \cup {p[2] : p \in {q \in issued :
              \E n \in Children(dir) :
                  /\ dir[n].st_ino = q[1]
                  /\ FileKind(TypeBits(dir[n].st_mode)) = "RegularFile"}}

\* C15: read-file on an identity that is not a known regular file, the
\* root's identity 1 and never-assigned identities among them, replies
\* "no such entry" for every offset and length.
C15_ReadUnknownNotFound ==
    (req.op = "read" /\ req.ino \notin KnownRegular)
    => replies = NoSuchEntry

\* C15 witness: a read-file on an identity no lookup returned
C15_Witness ==
    /\ req.op = "read"
    /\ req.ino = 5
    /\ issued = {}
    /\ \A k \in LookupKeys : firstIdent[k] = 0
    /\ replies = NoSuchEntry

\* the seven type-bit patterns and the tag of each
TypeTags ==
    { <<S_IFREG, "RegularFile">>, <<S_IFDIR, "Directory">>,
      <<S_IFLNK, "Symlink">>, <<S_IFBLK, "BlockDevice">>,
      <<S_IFCHR, "CharDevice">>, <<S_IFIFO, "NamedPipe">>,
      <<S_IFSOCK, "Socket">> }

\* a lookup of hello.txt under the root whose metadata query succeeded
TranslatedLookup ==
    /\ req.op = "lookup"
    /\ req.ino = 1
    /\ req.name = "hello.txt"
    /\ req.fault = "none"
    /\ dir["hello.txt"].present

\* the type bits of hello.txt: the mode without its low twelve bits
HelloTypeBits == (dir["hello.txt"].st_mode \div 4096) * 4096

\* C16: the translator gives the type bits of a mode the one tag of the
\* seven that belongs to them; for any other pattern no attribute record
\* and no success reply is produced and the adapter ends.
C16_TypeBitsToTag ==
    TranslatedLookup
    => IF \E tt \in TypeTags : tt[1] = HelloTypeBits
       THEN /\ alive
            /\ Replied("entry")
            /\ <<HelloTypeBits, replies[1].attr.kind>> \in TypeTags
            /\ replies[1].attr.perm + HelloTypeBits
                   = dir["hello.txt"].st_mode
       ELSE ~alive /\ replies = <<>>

\* C16 witness: hello.txt with type bits that are none of the seven was
\* looked up
C16_Witness ==
    /\ TranslatedLookup
    /\ ~(\E tt \in TypeTags : tt[1] = HelloTypeBits)
    /\ ~alive

\* C17: a lookup of a name other than hello.txt, under any parent and
\* whether or not the backing directory holds the name, is answered "no
\* such entry" and never with a success entry.
C17_OnlyHelloTxt ==
    (req.op = "lookup" /\ req.name # "hello.txt")
    => /\ ~Replied("entry")
       /\ req.fault = "none" => replies = NoSuchEntry

\* C17 witness: other.txt is in the backing directory and its lookup
\* under the root was answered "no such entry"
C17_Witness ==
    /\ req.op = "lookup"
    /\ req.ino = 1
    /\ req.name = "other.txt"
    /\ req.fault = "none"
    /\ dir["other.txt"].present
    /\ replies = NoSuchEntry

\* C18: get-attributes on an identity that a read-directory of the root
\* placed in a directory entry replies with an attribute record.
C18_ListedIdentitiesResolve ==
    ( /\ probe.set
      /\ probe.req.op = "readdir"
      /\ probe.req.ino = 1
      /\ alive
      /\ req.op = "getattr"
      /\ req.fault = "none"
      /\ \E j \in 1..Len(probe.replies[1].entries) :
             probe.replies[1].entries[j].ino = req.ino )
    => Replied("attr")

\* C19: no handler changes the backing tree, and a request issued again
\* on the unchanged backing tree gets the replies it got before, whatever
\* requests were handled in between.
C19_HandlersKeepNoState ==
    /\ [](probe.set /\ req = probe.req => replies = probe.replies /\ alive)
    /\ [][req' # NoRequest => root' = root /\ dir' = dir]_vars

\* C19 witness: a read-directory was issued a second time after a lookup
\* had succeeded in between
C19_Witness ==
    /\ probe.set
    /\ req = probe.req
    /\ replies = probe.replies
    /\ req.op = "readdir"
    /\ probe.issued = {}
    /\ issued # {}

====
